---- MODULE Spec2Model ----
(***************************************************************************)
(* Facter.py of the Ambari agent: the host-facts provider.                 *)
(*                                                                         *)
(* A Python str is a TLA+ string, a Python int an integer.  A value that   *)
(* a method returns is tagged with its Python type, so that 0 and "0" and  *)
(* a raised exception are different values that can be compared:           *)
(*   <<"str", s>>, <<"int", n>>, <<"bool", b>>, <<"dict", d>>, <<"none">>,   *)
(*   <<"raise", exception>>.                                               *)
(* Every method is an operator that yields [val |-> the tagged value       *)
(* returned or raised, warn |-> the sequence of log.warn messages].        *)
(***************************************************************************)
EXTENDS Integers, Sequences, FiniteSets, TLC

VARIABLES
  Facter,   \* the class bound to the name Facter at import (lines 452-455)
  host,     \* what every OS call and command would return right now
  data,     \* the instance: DATA_IFCONFIG_OUTPUT, DATA_UPTIME_OUTPUT, DATA_MEMINFO_OUTPUT
  built,    \* history: the host as each read of the constructor found it
  op,       \* the method called last on the instance ("" after a host change)
  ret,      \* the tagged value that call returned or raised
  log,      \* the log.warn messages that call emitted, in order
  seen,     \* the values the environment handed to that call, in order
  events,   \* how many times the host has changed so far
  info,     \* what the last facterInfo() of the instance returned, while the
            \* host is as that call found it (PyNone otherwise)
  prev      \* history: what info was when the last facterInfo() began

vars == <<Facter, host, data, built, op, ret, log, seen, events, info, prev>>

-----------------------------------------------------------------------------
(* Bounds of the model.                                                    *)

\* the longest name socket.getfqdn() yields in SpecBase
MaxFqdnLen == 4
\* the most changes of the host state in one behaviour of Spec
MaxEvents == 1

-----------------------------------------------------------------------------
(* Python values.                                                          *)

PyStr(s) == <<"str", s>>
PyInt(n) == <<"int", n>>
PyBool(b) == <<"bool", b>>
PyNone == <<"none">>
PyDict(d) == <<"dict", d>>
Raise(e) == <<"raise", e>>
Out(s) == <<"out", s>>

IsExc(v) == v[1] = "raise"
Result(v, w) == [val |-> v, warn |-> w]

-----------------------------------------------------------------------------
(* Python's str, int and float built-ins, as far as the module uses them.  *)

Char(s, i) == SubSeq(s, i, i)

Digits == "0123456789"
HexDigits == "0123456789ABCDEF"
LowerCase == "abcdefghijklmnopqrstuvwxyz"
UpperCase == "ABCDEFGHIJKLMNOPQRSTUVWXYZ"

\* a table (a function with a finite domain) as a value that is worked out
\* once, when it is defined, and looked up afterwards
Table(f) == f @@ <<>>

\* the characters of alphabet a, each with its 0-based position in a
Positions(a) ==
  Table([c \in {Char(a, i) : i \in 1..Len(a)} |->
           (CHOOSE i \in 1..Len(a) : Char(a, i) = c) - 1])

\* int(c) for a decimal digit c
DigitValue == Positions(Digits)
\* c.lower() for an upper-case letter c
LowerOf ==
  Table([c \in DOMAIN Positions(UpperCase) |-> Char(LowerCase, Positions(UpperCase)[c] + 1)])

IsDigit(c) == c \in DOMAIN DigitValue
\* \w of the re module on a str: [a-zA-Z0-9_]
IsWord(c) ==
  c \in DOMAIN DigitValue \cup DOMAIN LowerOf \cup DOMAIN Positions(LowerCase) \cup {"_"}
\* what str.strip(), int() and float() take for a blank: string.whitespace,
\* less the vertical tab, which no string of the model can hold
IsSpace(c) == c \in {" ", "\t", "\n", "\r", "\f"}

\* s[i-1:] of Python, for a 1-based i
From(s, i) == SubSeq(s, i, Len(s))

\* s.startswith(t, i-1)
StartsAt(s, i, t) == i + Len(t) - 1 <= Len(s) /\ SubSeq(s, i, i + Len(t) - 1) = t

\* the least and the greatest of a set of positions
Least(ps) == CHOOSE p \in ps : \A q \in ps : p <= q
Greatest(ps) == CHOOSE p \in ps : \A q \in ps : q <= p

\* the least of a set of positions, default when there is none
LeastOr(ps, default) == IF ps = {} THEN default ELSE Least(ps)

\* s.find(t, i-1) + 1: the first position >= i where t occurs in s, 0 when none
FindFrom(s, t, i) == LeastOr({p \in i..(Len(s) - Len(t) + 1) : StartsAt(s, p, t)}, 0)

Find(s, t) == FindFrom(s, t, 1)

\* s with the n characters at position p replaced by new, s itself when p is 0
ReplaceAt(s, p, n, new) ==
  IF p = 0 THEN s ELSE SubSeq(s, 1, p - 1) \o new \o From(s, p + n)

\* s.replace(old, new, 1)
ReplaceFirst(s, old, new) == ReplaceAt(s, Find(s, old), Len(old), new)

\* s.replace(c, '') for a one-character c: every occurrence goes
RECURSIVE RemoveAll(_, _)
RemoveAll(s, c) ==
  IF s = "" THEN ""
  ELSE (IF Char(s, 1) = c THEN "" ELSE Char(s, 1)) \o RemoveAll(From(s, 2), c)

\* what stands before position p of s, s itself when p is 0
Before(s, p) == IF p = 0 THEN s ELSE SubSeq(s, 1, p - 1)

\* s.split(sep, 1)[0] for a one-character sep
SplitHead(s, sep) == Before(s, Find(s, sep))

\* s.split(sep)[-1] for a one-character sep
RECURSIVE SplitLast(_, _)
SplitLast(s, sep) ==
  IF Find(s, sep) = 0 THEN s ELSE SplitLast(From(s, Find(s, sep) + 1), sep)

\* s.lower()
RECURSIVE Lower(_)
Lower(s) ==
  IF s = "" THEN ""
  ELSE LET c == Char(s, 1)
       IN (IF c \in DOMAIN LowerOf THEN LowerOf[c] ELSE c) \o Lower(From(s, 2))

\* s.strip()
RECURSIVE Strip(_)
Strip(s) ==
  IF s = "" THEN ""
  ELSE IF IsSpace(Char(s, 1)) THEN Strip(From(s, 2))
  ELSE IF IsSpace(Char(s, Len(s))) THEN Strip(SubSeq(s, 1, Len(s) - 1))
  ELSE s

AllDigits(s) == s # "" /\ \A i \in 1..Len(s) : IsDigit(Char(s, i))

\* the value of a non-empty string of decimal digits
RECURSIVE DigitsValue(_)
DigitsValue(s) ==
  IF s = "" THEN 0
  ELSE 10 * DigitsValue(SubSeq(s, 1, Len(s) - 1)) + DigitValue[Char(s, Len(s))]

\* str(n) for an int n
RECURSIVE ToStr(_)
ToStr(n) ==
  IF n < 0 THEN "-" \o ToStr(0 - n)
  ELSE IF n < 10 THEN Char(Digits, n + 1)
  ELSE ToStr(n \div 10) \o Char(Digits, (n % 10) + 1)

\* the int that a sign and a run of digits stand for, ValueError when body is
\* not a run of digits
ParseDigits(sign, body) ==
  IF ~AllDigits(body) THEN Raise("ValueError")
  ELSE PyInt(IF sign = "-" THEN 0 - DigitsValue(body) ELSE DigitsValue(body))

\* the int that t, an optional sign and a run of digits, stands for
ParseSigned(t) ==
  IF t # "" /\ Char(t, 1) \in {"+", "-"} THEN ParseDigits(Char(t, 1), From(t, 2))
  ELSE ParseDigits("+", t)

\* int(s) for a str s: an optional sign and a run of digits, with blanks
\* before, after and between the sign and the digits; ValueError for anything
\* else
ParseInt(s) ==
  IF Strip(s) # "" /\ Char(Strip(s), 1) \in {"+", "-"}
    THEN ParseDigits(Char(Strip(s), 1), Strip(From(Strip(s), 2)))
    ELSE ParseDigits("+", Strip(s))

\* a float: sign is 1 or -1 (a zero keeps its sign) and the magnitude is the
\* double nearest to num / den; den = 0 stands for an infinity (num = 1) and
\* for nan (num = 0).  The floats of the model are those whose num and den fit
\* its integers.
PyFloat(sign, num, den) == <<"float", sign, num, den>>

\* 10 ** k for k >= 0
RECURSIVE Pow10(_)
Pow10(k) == IF k = 0 THEN 1 ELSE 10 * Pow10(k - 1)

\* the float sign * digits * 10 ** (exp - places), exp being the int of the
\* exponent or the ValueError that its text gave
Decimal(sign, digits, places, exp) ==
  IF ~AllDigits(digits) \/ IsExc(exp) THEN Raise("ValueError")
  ELSE IF exp[2] >= places
    THEN PyFloat(sign, DigitsValue(digits) * Pow10(exp[2] - places), 1)
  ELSE PyFloat(sign, DigitsValue(digits), Pow10(places - exp[2]))

\* the float of mantissa m, digits with at most one point among them
Mantissa(sign, m, exp) ==
  IF Find(m, ".") = 0 THEN Decimal(sign, m, 0, exp)
  ELSE Decimal(sign, Before(m, Find(m, ".")) \o From(m, Find(m, ".") + 1),
               Len(m) - Find(m, "."), exp)

\* the float of t, lower-case and with no sign in front
Unsigned(sign, t) ==
  IF t \in {"inf", "infinity"} THEN PyFloat(sign, 1, 0)
  ELSE IF t = "nan" THEN PyFloat(1, 0, 0)
  ELSE IF Find(t, "e") = 0 THEN Mantissa(sign, t, PyInt(0))
  ELSE Mantissa(sign, Before(t, Find(t, "e")), ParseSigned(From(t, Find(t, "e") + 1)))

\* the float of t, lower-case and stripped
FloatOfStr(t) ==
  IF t # "" /\ Char(t, 1) \in {"+", "-"}
    THEN Unsigned(IF Char(t, 1) = "-" THEN 0 - 1 ELSE 1, From(t, 2))
    ELSE Unsigned(1, t)

\* float(v) for an int or a str v: blanks around an optionally signed
\* decimal with an optional exponent, or an infinity or nan, in either case;
\* ValueError for any other str
ParseFloat(v) ==
  IF v[1] = "int"
    THEN PyFloat(IF v[2] < 0 THEN 0 - 1 ELSE 1, IF v[2] < 0 THEN 0 - v[2] ELSE v[2], 1)
  ELSE FloatOfStr(Lower(Strip(v[2])))

\* "%0.2f" % x for x >= 0 of hundredths hundredths
Format2f(hundredths) ==
  ToStr(hundredths \div 100) \o "." \o ToStr((hundredths % 100) \div 10)
    \o ToStr(hundredths % 10)

\* floor(log2(num / den)) for num, den > 0; 0 for num = 0
RECURSIVE Log2(_, _)
Log2(num, den) ==
  IF num >= 2 * den THEN Log2(num, 2 * den) + 1
  ELSE IF 0 < num /\ num < den THEN Log2(2 * num, den) - 1
  ELSE 0

\* (r * 2 ** e) % den for 0 <= r < den
RECURSIVE Scaled(_, _, _)
Scaled(r, den, e) == IF e = 0 THEN r ELSE Scaled((2 * r) % den, den, e - 1)

\* n / d rounded to an int, a tie away from zero.  n / d stands for the
\* double nearest to it, and cut / den is what the 53 bits of that double
\* leave out of it: with a cut that is not 0 and less than a half the double
\* is the lesser of the two, which decides a tie.
RoundHalf(n, d, cut, den) ==
  IF (2 * n + d) % (2 * d) = 0 /\ cut # 0 /\ 2 * cut < den
    THEN (2 * n + d) \div (2 * d) - 1
    ELSE (2 * n + d) \div (2 * d)

\* "%0.2f GB" % round(f / divisor, 2): the division by a power of two is
\* exact, round() of Python 2 rounds the double, a tie away from zero, the
\* sign stays in front of a zero, and an infinity and nan print by name.  The
\* exception that float() raised goes through.
FormatGb(f, divisor) ==
  IF IsExc(f) THEN f
  ELSE IF f[4] = 0 /\ f[3] = 0 THEN PyStr("nan GB")
  ELSE IF f[4] = 0 THEN PyStr((IF f[2] < 0 THEN "-" ELSE "") \o "inf GB")
  ELSE PyStr((IF f[2] < 0 THEN "-" ELSE "")
             \o Format2f(RoundHalf(100 * f[3], f[4] * divisor,
                                   Scaled(f[3] % f[4], f[4], 52 - Log2(f[3], f[4])), f[4]))
             \o " GB")

-----------------------------------------------------------------------------
(* class FacterBase                                                        *)

\* getId: getpass.getuser()
getId(h) == Result(PyStr(h.user), <<>>)

\* getKernel: platform.system()
getKernel(h) == Result(PyStr(h.system), <<>>)

\* getFqdn: socket.getfqdn().lower()
getFqdn(h) == Result(PyStr(Lower(h.fqdn)), <<>>)

\* getHostname: self.getFqdn().split('.', 1)[0]
getHostname(h) == Result(PyStr(SplitHead(getFqdn(h).val[2], ".")), <<>>)

\* s.replace(old, new): every occurrence, left to right; the empty old occurs
\* before every character and at the end
RECURSIVE ReplaceEvery(_, _, _)
ReplaceEvery(s, old, new) ==
  IF old = "" THEN (IF s = "" THEN new
                    ELSE new \o Char(s, 1) \o ReplaceEvery(From(s, 2), old, new))
  ELSE IF Find(s, old) = 0 THEN s
  ELSE SubSeq(s, 1, Find(s, old) - 1) \o new
         \o ReplaceEvery(From(s, Find(s, old) + Len(old)), old, new)

\* getDomain with the count of the first replace left out
getDomain_everywhere(h) ==
  LET fqdn == getFqdn(h).val[2]
      hostname == getHostname(h).val[2]
      domain == ReplaceEvery(fqdn, hostname, "")
  IN Result(PyStr(ReplaceFirst(domain, ".", "")), <<>>)

\* getDomain
getDomain(h) ==
  LET fqdn == getFqdn(h).val[2]
      hostname == getHostname(h).val[2]
      domain == ReplaceFirst(fqdn, hostname, "")
  IN Result(PyStr(ReplaceFirst(domain, ".", "")), <<>>)

\* getArchitecture
getArchitecture(h) ==
  LET result == h.processor
  IN IF result = "" THEN Result(PyStr("OS NOT SUPPORTED"), <<>>)
     ELSE Result(PyStr(result), <<>>)

\* getOperatingSystem, getOperatingSystemRelease, getOsFamily: OSCheck
getOperatingSystem(h) == Result(PyStr(h.os_type), <<>>)
getOperatingSystemRelease(h) == Result(PyStr(h.os_version), <<>>)
getOsFamily(h) == Result(PyStr(h.os_family), <<>>)

\* t[i] of Python for a tuple t: a negative index counts from the end
PyIndex(t, i) == IF i < 0 THEN t[Len(t) + i + 1] ELSE t[i + 1]

\* getTimeZone: time.tzname[time.daylight - 1]
getTimeZone(h) == Result(PyStr(PyIndex(h.tzname, h.daylight - 1)), <<>>)

\* getProcessorcount: multiprocessing.cpu_count()
getProcessorcount(h) == Result(PyInt(h.cpu_count), <<>>)

\* getKernelRelease: platform.release()
getKernelRelease(h) == Result(PyStr(h.release), <<>>)

\* getKernelVersion: kernel_release.split('-', 1)[0]
getKernelVersion(h) == Result(PyStr(SplitHead(h.release, "-")), <<>>)

\* sep.join(v.split(sep, 2)[0:2])
FirstTwo(v, sep) ==
  IF Find(v, sep) = 0 THEN v
  ELSE SplitHead(v, sep) \o sep \o SplitHead(From(v, Find(v, sep) + 1), sep)

\* getKernelMajVersion: '.'.join(self.getKernelVersion().split('.', 2)[0:2])
getKernelMajVersion(h) == Result(PyStr(FirstTwo(getKernelVersion(h).val[2], ".")), <<>>)

\* (mac >> 8 * i) & 0xff.  uuid.getnode() is a 48-bit integer, wider than the
\* integers of the model checker, so the node is held as its six bytes, the
\* least significant first: byte i of the integer is element i + 1.
ShiftMask(mac, i) == mac[i + 1]

\* '%02X' % b for 0 <= b <= 255
Hex02(b) == Char(HexDigits, (b \div 16) + 1) \o Char(HexDigits, (b % 16) + 1)

\* ':'.join(parts)
RECURSIVE Join(_, _)
Join(sep, parts) ==
  IF parts = <<>> THEN ""
  ELSE IF Len(parts) = 1 THEN parts[1]
  ELSE parts[1] \o sep \o Join(sep, Tail(parts))

\* getMacAddress without the comparison of the two reads
getMacAddress_unchecked(first, second) ==
  Result(PyStr(Join(":", [k \in 1..6 |-> Hex02(ShiftMask(first, 6 - k))])), <<>>)

\* getMacAddress; first and second are the two uuid.getnode() results
getMacAddress(first, second) ==
  LET mac == first
  IN IF second = mac
       THEN Result(PyStr(Join(":", [k \in 1..6 |-> Hex02(ShiftMask(mac, 6 - k))])), <<>>)
       ELSE Result(PyStr("UNKNOWN"), <<>>)

\* convertSizeKbToGb: "%0.2f GB" % round(float(size) / (1024.0 * 1024.0), 2)
convertSizeKbToGb(size) == FormatGb(ParseFloat(size), 1024 * 1024)

\* convertSizeMbToGb: "%0.2f GB" % round(float(size) / (1024.0), 2)
convertSizeMbToGb(size) == FormatGb(ParseFloat(size), 1024)

\* getUptimeHours with the divisor of the minutes
getUptimeHours_minutes(seconds) == Result(PyInt(seconds.val[2] \div 60), seconds.warn)

\* getUptimeHours: self.getUptimeSeconds() / (60 * 60), the / of Python 2 on
\* ints; seconds is the Result of the variant's getUptimeSeconds()
getUptimeHours(seconds) == Result(PyInt(seconds.val[2] \div (60 * 60)), seconds.warn)

\* getUptimeDays: self.getUptimeSeconds() / (60 * 60 * 24)
getUptimeDays(seconds) == Result(PyInt(seconds.val[2] \div (60 * 60 * 24)), seconds.warn)

-----------------------------------------------------------------------------
(* The host: what the OS calls and the commands of the module return.      *)

\* os.popen(GET_UPTIME_CMD).read(), "cat /proc/uptime"
ProcUptime(h) ==
  CASE h.uptime_fault = "raise" -> Raise("OSError")
    [] h.uptime_fault = "text" -> Out("n/a\n")
    [] OTHER -> Out(ToStr(h.uptime) \o ".17 " \o ToStr(h.uptime) \o ".02\n")

\* shellRunner().runPowershell(script_block=GET_UPTIME_CMD).output
PsUptime(h) ==
  CASE h.uptime_fault = "raise" -> Raise("Exception")
    [] h.uptime_fault = "text" -> Out("Get-WmiObject : Access denied\r\n")
    [] OTHER -> Out(ToStr(h.uptime) \o "\r\n")

-----------------------------------------------------------------------------
(* The command outputs of the model.                                       *)

\* ifconfig of net-tools 1.x
IfconfigLegacy ==
  "eth0  Link encap:Ethernet  HWaddr 00:16:3E:00:00:01\n"
  \o "      inet addr:192.168.1.10  Bcast:192.168.1.255  Mask:255.255.255.0\n"
  \o "lo    Link encap:Local Loopback\n"
  \o "      inet addr:127.0.0.1  Mask:255.0.0.0\n"

\* ifconfig of net-tools 2.x (RHEL 7)
IfconfigNewer ==
  "eth0: flags=4163<UP,RUNNING>  mtu 1500\n"
  \o "      inet 10.0.0.5  netmask 255.255.255.0  broadcast 10.0.0.255\n"
  \o "lo: flags=73<UP,LOOPBACK>  mtu 65536\n"
  \o "      inet 127.0.0.1  netmask 255.0.0.0\n"

MeminfoText ==
  "MemTotal:    4194304 kB\nMemFree:     2048000 kB\n"
  \o "SwapTotal:   2097152 kB\nSwapFree:    1048576 kB\n"

-----------------------------------------------------------------------------
(* re.findall for the patterns of FacterLinux.  A pattern is held by its   *)
(* shape: [kind, lit] for                                                  *)
(*   "lit_quad":  (?:lit)(\d{1,3}\.\d{1,3}\.\d{1,3}\.\d{1,3})              *)
(*   "word_lit":  (\w+)(?:.*lit)                                           *)
(*   "digits":    \d+                                                      *)
(*   "label_num": lit.*?(\d+) .*                                           *)

\* how many digits stand at s[i..], counting at most max
RECURSIVE DigitRun(_, _, _)
DigitRun(s, i, max) ==
  IF max = 0 \/ i > Len(s) \/ ~IsDigit(Char(s, i)) THEN 0
  ELSE 1 + DigitRun(s, i + 1, max - 1)

\* how many \w characters stand at s[i..]
RECURSIVE WordRun(_, _)
WordRun(s, i) ==
  IF i > Len(s) \/ ~IsWord(Char(s, i)) THEN 0 ELSE 1 + WordRun(s, i + 1)

\* the position of the first "\n" at or after i, Len(s) + 1 when there is none
\* ('.' matches anything but a newline)
LineEnd(s, i) == LeastOr({p \in i..Len(s) : Char(s, p) = "\n"}, Len(s) + 1)

\* \d{1,3}(\.\d{1,3}){n-1} at s[i..]: the position after it, 0 for no match
RECURSIVE QuadEnd(_, _, _)
\* the same, the first group being the digits s[i..j-1]
QuadRest(s, i, j, n) ==
  IF j = i THEN 0
  ELSE IF n = 1 THEN j
  ELSE IF j <= Len(s) /\ Char(s, j) = "." THEN QuadEnd(s, j + 1, n - 1)
  ELSE 0

QuadEnd(s, i, n) == QuadRest(s, i, i + DigitRun(s, i, 3), n)

\* a match of s that ends before position e, its group starting at position j;
\* no match, which has end 0, when e is 0
Matched(s, j, e) ==
  IF e = 0 THEN [end |-> 0, group |-> ""] ELSE [end |-> e, group |-> SubSeq(s, j, e - 1)]

\* (?:lit)(\d{1,3}\.\d{1,3}\.\d{1,3}\.\d{1,3}) at position i
MatchLitQuad(lit, s, i) ==
  Matched(s, i + Len(lit), IF StartsAt(s, i, lit) THEN QuadEnd(s, i + Len(lit), 4) ELSE 0)

\* (\w+)(?:.*lit) at position i, where w word characters stand and qs are the
\* positions of lit in the rest of the line: .* runs to the last of them, and
\* \w+ gives back what that lit needs
MatchWord(lit, s, i, w, qs) ==
  IF w = 0 \/ qs = {} THEN Matched(s, i, 0)
  ELSE [end |-> Greatest(qs) + Len(lit),
        group |-> SubSeq(s, i, Least({i + w, Greatest(qs)}) - 1)]

MatchWordLit(lit, s, i) ==
  MatchWord(lit, s, i, WordRun(s, i),
            {q \in (i + 1)..(LineEnd(s, i) - Len(lit)) : StartsAt(s, q, lit)})

\* \d+ at position i
MatchDigits(s, i) ==
  Matched(s, i, IF DigitRun(s, i, Len(s)) = 0 THEN 0 ELSE i + DigitRun(s, i, Len(s)))

\* lit.*?(\d+) .* where lit was found (or not) and ends before position j, on
\* the line that ends at stop: .*? stops at the first digits that a blank follows
MatchLabel(s, found, qs, stop) ==
  IF ~found \/ qs = {} THEN Matched(s, stop, 0)
  ELSE [end |-> stop,
        group |-> SubSeq(s, Least(qs), Least(qs) + DigitRun(s, Least(qs), Len(s)) - 1)]

MatchLabelLine(s, found, j, stop) ==
  MatchLabel(s, found,
             {q \in j..(stop - 1) :
                /\ DigitRun(s, q, Len(s)) > 0
                /\ q + DigitRun(s, q, Len(s)) < stop
                /\ Char(s, q + DigitRun(s, q, Len(s))) = " "},
             stop)

MatchLabelNum(lit, s, i) ==
  MatchLabelLine(s, StartsAt(s, i, lit), i + Len(lit), LineEnd(s, i + Len(lit)))

\* one match attempt at position i: the position after the match (0 for no
\* match) and what findall reports for it
MatchAt(pattern, s, i) ==
  CASE pattern.kind = "lit_quad" -> MatchLitQuad(pattern.lit, s, i)
    [] pattern.kind = "word_lit" -> MatchWordLit(pattern.lit, s, i)
    [] pattern.kind = "digits" -> MatchDigits(s, i)
    [] pattern.kind = "label_num" -> MatchLabelNum(pattern.lit, s, i)

\* re.findall(pattern, s) from position i on: the leftmost match, then the
\* matches of what follows it
RECURSIVE FindAllFrom(_, _, _)
\* the group of match m, then the matches after m
FindAllAfter(pattern, s, m) == <<m.group>> \o FindAllFrom(pattern, s, m.end)

\* ps are the positions where a match starts
FindAllAt(pattern, s, ps) ==
  IF ps = {} THEN <<>> ELSE FindAllAfter(pattern, s, MatchAt(pattern, s, Least(ps)))

FindAllFrom(pattern, s, i) ==
  FindAllAt(pattern, s, {p \in i..Len(s) : MatchAt(pattern, s, p).end # 0})

\* re.findall of every pattern of the module on every command output of the
\* model that spans several lines, and of \d+ on /proc/uptime in the first
\* seconds of a behaviour, worked out once
FindAllTable ==
  Table([x \in (({[kind |-> "lit_quad", lit |-> l] :
                    l \in {" inet addr:", " inet ", " Mask:", " netmask "}}
                 \cup {[kind |-> "word_lit", lit |-> l] : l \in {"Link encap:", "flags="}}
                 \cup {[kind |-> "label_num", lit |-> l] :
                         l \in {"MemFree:", "MemTotal:", "SwapFree:", "SwapTotal:"}})
                  \X {IfconfigLegacy, IfconfigNewer, MeminfoText})
                \cup ({[kind |-> "digits", lit |-> ""]}
                      \X {ProcUptime([uptime |-> 60 * 60 * 24 - 1 + d, uptime_fault |-> ""])[2] :
                            d \in 0..3})
          |-> FindAllFrom(x[1], x[2], 1)])

\* re.findall(pattern, s)
findall(pattern, s) ==
  IF <<pattern, s>> \in DOMAIN FindAllTable THEN FindAllTable[<<pattern, s>>]
  ELSE FindAllFrom(pattern, s, 1)

\* re.search('(enforcing|permissive|enabled)', out) finds something
SeStatusSearch(out) ==
  \E w \in {"enforcing", "permissive", "enabled"} : Find(out, w) > 0

-----------------------------------------------------------------------------
(* class FacterLinux                                                       *)

\* setDataIfConfigOutput: os.popen(GET_IFCONFIG_CMD).read(), "" on OSError
setDataIfConfigOutput(h) ==
  IF IsExc(h.ifconfig) THEN Result(PyStr(""), <<"Can't execute ifconfig">>)
  ELSE Result(PyStr(h.ifconfig[2]), <<>>)

\* setDataUpTimeOutput
setDataUpTimeOutput(h) ==
  IF IsExc(ProcUptime(h)) THEN Result(PyStr(""), <<"Can't execute cat /proc/uptime">>)
  ELSE Result(PyStr(ProcUptime(h)[2]), <<>>)

\* setMemInfoOutput
setMemInfoOutput(h) ==
  IF IsExc(h.meminfo) THEN Result(PyStr(""), <<"Can't execute cat /proc/meminfo">>)
  ELSE Result(PyStr(h.meminfo[2]), <<>>)

\* FacterLinux.__init__: the three captures, in this order, each a read of
\* its own: hs[1], hs[2] and hs[3] are the host as the first, the second and
\* the third find it.  The value is the fields of the instance.
FacterLinux_init(hs) ==
  Result([DATA_IFCONFIG_OUTPUT |-> setDataIfConfigOutput(hs[1]).val[2],
          DATA_UPTIME_OUTPUT |-> setDataUpTimeOutput(hs[2]).val[2],
          DATA_MEMINFO_OUTPUT |-> setMemInfoOutput(hs[3]).val[2]],
         setDataIfConfigOutput(hs[1]).warn \o setDataUpTimeOutput(hs[2]).warn
           \o setMemInfoOutput(hs[3]).warn)

\* FacterBase.__init__ (FacterWindows defines none): nothing is read and the
\* instance has no fields
FacterBase_init(hs) ==
  Result([DATA_IFCONFIG_OUTPUT |-> "", DATA_UPTIME_OUTPUT |-> "", DATA_MEMINFO_OUTPUT |-> ""],
         <<>>)

\* isSeLinux
isSeLinux(h) ==
  IF IsExc(h.sestatus)
    THEN Result(PyBool(FALSE), <<"Could not run /usr/sbin/sestatus: OK">>)
    ELSE Result(PyBool(SeStatusSearch(h.sestatus[2])), <<>>)

\* result = result + i + "," for every i of full_list
RECURSIVE AppendEach(_)
AppendEach(full_list) ==
  IF full_list = <<>> THEN ""
  ELSE full_list[1] \o "," \o AppendEach(Tail(full_list))

\* re.sub(r',$', "", result)
DropLastComma(result) ==
  IF result # "" /\ Char(result, Len(result)) = ","
    THEN SubSeq(result, 1, Len(result) - 1)
    ELSE result

\* data_return_list; re.sub(r',$', "", result) drops the one comma at the end
data_return_list(patern, d) == DropLastComma(AppendEach(findall(patern, d)))

\* full_list[0] if full_list else ""
FirstOrEmpty(full_list) == IF full_list # <<>> THEN full_list[1] ELSE ""

\* data_return_first
data_return_first(patern, d) == FirstOrEmpty(findall(patern, d))

\* socket.gethostbyname(socket.gethostname().lower())
gethostbyname(h) == Result(h.resolve, <<>>)

\* the str result when it is not empty, default and a warning when it is
OrElse(result, default, warning) ==
  IF result = "" THEN Result(default, <<warning>>) ELSE Result(PyStr(result), <<>>)

\* FacterLinux.getIpAddress without the fallback to the resolver
FacterLinux_getIpAddress_nofallback(self, h) ==
  Result(PyStr(data_return_first(IF h.is_redhat7 THEN [kind |-> "lit_quad", lit |-> " inet "]
                                 ELSE [kind |-> "lit_quad", lit |-> " inet addr:"],
                                 self.DATA_IFCONFIG_OUTPUT)), <<>>)

\* FacterLinux.getIpAddress
FacterLinux_getIpAddress(self, h) ==
  OrElse(data_return_first(IF h.is_redhat7 THEN [kind |-> "lit_quad", lit |-> " inet "]
                           ELSE [kind |-> "lit_quad", lit |-> " inet addr:"],
                           self.DATA_IFCONFIG_OUTPUT),
         gethostbyname(h).val, "Can't get an ip address from " \o self.DATA_IFCONFIG_OUTPUT)

\* FacterLinux.getNetmask
FacterLinux_getNetmask(self, h) ==
  OrElse(data_return_first(IF h.is_redhat7 THEN [kind |-> "lit_quad", lit |-> " netmask "]
                           ELSE [kind |-> "lit_quad", lit |-> " Mask:"],
                           self.DATA_IFCONFIG_OUTPUT),
         PyStr("OS NOT SUPPORTED"), "Can't get a netmask from " \o self.DATA_IFCONFIG_OUTPUT)

\* FacterLinux.getInterfaces
FacterLinux_getInterfaces(self, h) ==
  OrElse(data_return_list(IF h.is_redhat7 THEN [kind |-> "word_lit", lit |-> "flags="]
                          ELSE [kind |-> "word_lit", lit |-> "Link encap:"],
                          self.DATA_IFCONFIG_OUTPUT),
         PyStr("OS NOT SUPPORTED"),
         "Can't get a network interfaces list from " \o self.DATA_IFCONFIG_OUTPUT)

\* try: return n / except: log.warn(warning); return 0
ZeroOnError(n, warning) ==
  IF IsExc(n) THEN Result(PyInt(0), <<warning>>) ELSE Result(n, <<>>)

\* int(self.data_return_first(pattern, d)), 0 and a warning on ValueError
IntOrZero(pattern, d, warning) ==
  ZeroOnError(ParseInt(data_return_first(pattern, d)), warning)

\* FacterLinux.getUptimeSeconds
FacterLinux_getUptimeSeconds(self) ==
  IntOrZero([kind |-> "digits", lit |-> ""], self.DATA_UPTIME_OUTPUT,
            "Can't get an uptime value from " \o self.DATA_UPTIME_OUTPUT)

\* FacterLinux.getMemoryFree
FacterLinux_getMemoryFree(self) ==
  IntOrZero([kind |-> "label_num", lit |-> "MemFree:"], self.DATA_MEMINFO_OUTPUT,
            "Can't get free memory size from " \o self.DATA_MEMINFO_OUTPUT)

\* FacterLinux.getMemoryTotal
FacterLinux_getMemoryTotal(self) ==
  IntOrZero([kind |-> "label_num", lit |-> "MemTotal:"], self.DATA_MEMINFO_OUTPUT,
            "Can't get total memory size from " \o self.DATA_MEMINFO_OUTPUT)

\* FacterLinux.getSwapFree
FacterLinux_getSwapFree(self) ==
  IntOrZero([kind |-> "label_num", lit |-> "SwapFree:"], self.DATA_MEMINFO_OUTPUT,
            "Can't get free swap memory size from " \o self.DATA_MEMINFO_OUTPUT)

\* FacterLinux.getSwapSize
FacterLinux_getSwapSize(self) ==
  IntOrZero([kind |-> "label_num", lit |-> "SwapTotal:"], self.DATA_MEMINFO_OUTPUT,
            "Can't get total swap memory size from " \o self.DATA_MEMINFO_OUTPUT)

\* FacterLinux.getMemorySize
FacterLinux_getMemorySize(self) ==
  IntOrZero([kind |-> "label_num", lit |-> "MemTotal:"], self.DATA_MEMINFO_OUTPUT,
            "Can't get memory size from " \o self.DATA_MEMINFO_OUTPUT)

-----------------------------------------------------------------------------
(* class FacterWindows                                                     *)

\* FacterWindows.getIpAddress
FacterWindows_getIpAddress(h) == gethostbyname(h)

\* FacterWindows.getNetmask
FacterWindows_getNetmask(h) == Result(PyStr("OS NOT SUPPORTED"), <<>>)

\* FacterWindows.getInterfaces
FacterWindows_getInterfaces(h) == Result(PyStr("OS NOT SUPPORTED"), <<>>)

\* .replace('\n', '').replace('\r', '')
DropNewlines(s) == RemoveAll(RemoveAll(s, "\n"), "\r")

\* int(out.replace('\n', '').replace('\r', '')), the exception of the runner
\* when out is one
IntOfOutput(out) == IF IsExc(out) THEN out ELSE ParseInt(DropNewlines(out[2]))

\* FacterWindows.getUptimeSeconds
FacterWindows_getUptimeSeconds(h) ==
  ZeroOnError(IntOfOutput(PsUptime(h)), "Can not get SwapFree")

\* output.split(" ")[0] with the newlines dropped, 0 and a warning when the
\* runner raises
FirstToken(out, warning) ==
  IF IsExc(out) THEN Result(PyInt(0), <<warning>>)
  ELSE Result(PyStr(DropNewlines(SplitHead(out[2], " "))), <<>>)

\* output.split(" ")[-1] with the newlines dropped
LastToken(out, warning) ==
  IF IsExc(out) THEN Result(PyInt(0), <<warning>>)
  ELSE Result(PyStr(DropNewlines(SplitLast(out[2], " "))), <<>>)

\* FacterWindows.getMemoryFree
FacterWindows_getMemoryFree(h) == FirstToken(h.ps_memory, "Can not get MemoryFree")

\* FacterWindows.getMemoryTotal
FacterWindows_getMemoryTotal(h) == LastToken(h.ps_memory, "Can not get MemoryTotal")

\* FacterWindows.getSwapFree
FacterWindows_getSwapFree(h) == LastToken(h.ps_pagefile, "Can not get SwapFree")

\* FacterWindows.getSwapSize
FacterWindows_getSwapSize(h) == FirstToken(h.ps_pagefile, "Can not get SwapFree")

\* FacterWindows.getMemorySize
FacterWindows_getMemorySize(h) == LastToken(h.ps_memory, "Can not get MemorySize")

-----------------------------------------------------------------------------
(* The methods as the instance dispatches them: cls is the class of self.  *)

getIpAddress(cls, self, h) ==
  IF cls = "FacterLinux" THEN FacterLinux_getIpAddress(self, h)
  ELSE FacterWindows_getIpAddress(h)

getNetmask(cls, self, h) ==
  IF cls = "FacterLinux" THEN FacterLinux_getNetmask(self, h)
  ELSE FacterWindows_getNetmask(h)

getInterfaces(cls, self, h) ==
  IF cls = "FacterLinux" THEN FacterLinux_getInterfaces(self, h)
  ELSE FacterWindows_getInterfaces(h)

getUptimeSeconds(cls, self, h) ==
  IF cls = "FacterLinux" THEN FacterLinux_getUptimeSeconds(self)
  ELSE FacterWindows_getUptimeSeconds(h)

getMemoryFree(cls, self, h) ==
  IF cls = "FacterLinux" THEN FacterLinux_getMemoryFree(self)
  ELSE FacterWindows_getMemoryFree(h)

getMemoryTotal(cls, self, h) ==
  IF cls = "FacterLinux" THEN FacterLinux_getMemoryTotal(self)
  ELSE FacterWindows_getMemoryTotal(h)

getMemorySize(cls, self, h) ==
  IF cls = "FacterLinux" THEN FacterLinux_getMemorySize(self)
  ELSE FacterWindows_getMemorySize(h)

getSwapFree(cls, self, h) ==
  IF cls = "FacterLinux" THEN FacterLinux_getSwapFree(self)
  ELSE FacterWindows_getSwapFree(h)

getSwapSize(cls, self, h) ==
  IF cls = "FacterLinux" THEN FacterLinux_getSwapSize(self)
  ELSE FacterWindows_getSwapSize(h)

-----------------------------------------------------------------------------
(* facterInfo.  Every read of the host is a call that blocks, and the host *)
(* may move on between any two of them.  hs[i] is the host as read i of    *)
(* the call finds it.  FacterBase.facterInfo makes seven:                  *)
(*   1  getIpAddress (the resolver)      5  getMemorySize                  *)
(*   2  getUptimeSeconds                 6  getMemoryFree                  *)
(*   3  getUptimeHours                   7  getMemoryTotal                 *)
(*   4  getUptimeDays                                                      *)
(* FacterWindows.facterInfo adds 8, getSwapSize, and 9, getSwapFree.  A    *)
(* FacterLinux instance answers 2 to 7 from its captures, so that its      *)
(* facterInfo makes two: 1, the resolver, and 2, isSeLinux.                *)

\* the mapping of FacterBase.facterInfo on host h, r holding what the
\* accessors of the variant returned, or the exception that ends the call
Facts(h, r) ==
  IF IsExc(r.ipaddress.val) THEN r.ipaddress
  ELSE Result(PyDict(
    [id |-> getId(h).val,
     kernel |-> getKernel(h).val,
     domain |-> getDomain(h).val,
     fqdn |-> getFqdn(h).val,
     hostname |-> getHostname(h).val,
     macaddress |-> getMacAddress(h.node, h.node).val,
     architecture |-> getArchitecture(h).val,
     operatingsystem |-> getOperatingSystem(h).val,
     operatingsystemrelease |-> getOperatingSystemRelease(h).val,
     physicalprocessorcount |-> getProcessorcount(h).val,
     processorcount |-> getProcessorcount(h).val,
     timezone |-> getTimeZone(h).val,
     hardwareisa |-> getArchitecture(h).val,
     hardwaremodel |-> getArchitecture(h).val,
     kernelrelease |-> getKernelRelease(h).val,
     kernelversion |-> getKernelVersion(h).val,
     osfamily |-> getOsFamily(h).val,
     kernelmajversion |-> getKernelMajVersion(h).val,
     ipaddress |-> r.ipaddress.val,
     netmask |-> r.netmask.val,
     interfaces |-> r.interfaces.val,
     uptime_seconds |-> PyStr(ToStr(r.uptime_seconds.val[2])),
     uptime_hours |-> PyStr(ToStr(r.uptime_hours.val[2])),
     uptime_days |-> PyStr(ToStr(r.uptime_days.val[2])),
     memorysize |-> r.memorysize.val,
     memoryfree |-> r.memoryfree.val,
     memorytotal |-> r.memorytotal.val]),
    r.ipaddress.warn \o r.netmask.warn \o r.interfaces.warn \o r.uptime_seconds.warn
      \o r.uptime_hours.warn \o r.uptime_days.warn \o r.memorysize.warn
      \o r.memoryfree.warn \o r.memorytotal.warn)

\* FacterBase.facterInfo
FacterBase_facterInfo(cls, self, hs) ==
  Facts(hs[1], [ipaddress |-> getIpAddress(cls, self, hs[1]),
                netmask |-> getNetmask(cls, self, hs[1]),
                interfaces |-> getInterfaces(cls, self, hs[1]),
                uptime_seconds |-> getUptimeSeconds(cls, self, hs[2]),
                uptime_hours |-> getUptimeHours(getUptimeSeconds(cls, self, hs[3])),
                uptime_days |-> getUptimeDays(getUptimeSeconds(cls, self, hs[4])),
                memorysize |-> getMemorySize(cls, self, hs[5]),
                memoryfree |-> getMemoryFree(cls, self, hs[6]),
                memorytotal |-> getMemoryTotal(cls, self, hs[7])])

\* facterInfo[key] = r, r being what an accessor returned; base is the
\* mapping so far, or the exception that has ended the call
AddFact(base, key, r) ==
  IF IsExc(base.val) THEN base
  ELSE Result(PyDict(base.val[2] @@ [k \in {key} |-> r.val]), base.warn \o r.warn)

\* facterInfo[key] = converted, the conversion of what accessor r returned,
\* or the exception that the conversion raised
AddConverted(base, key, r, converted) ==
  IF IsExc(base.val) THEN base
  ELSE IF IsExc(converted) THEN Result(converted, base.warn \o r.warn)
  ELSE Result(PyDict(base.val[2] @@ [k \in {key} |-> converted]), base.warn \o r.warn)

\* FacterWindows.facterInfo
FacterWindows_facterInfo(self, hs) ==
  AddConverted(
    AddConverted(FacterBase_facterInfo("FacterWindows", self, hs),
                 "swapsize", FacterWindows_getSwapSize(hs[8]),
                 convertSizeMbToGb(FacterWindows_getSwapSize(hs[8]).val)),
    "swapfree", FacterWindows_getSwapFree(hs[9]),
    convertSizeMbToGb(FacterWindows_getSwapFree(hs[9]).val))

\* FacterLinux.facterInfo
FacterLinux_facterInfo(self, hs) ==
  AddConverted(
    AddConverted(
      AddFact(FacterBase_facterInfo("FacterLinux", self, [i \in 1..7 |-> hs[1]]),
              "selinux", isSeLinux(hs[2])),
      "swapsize", FacterLinux_getSwapSize(self),
      convertSizeKbToGb(FacterLinux_getSwapSize(self).val)),
    "swapfree", FacterLinux_getSwapFree(self),
    convertSizeKbToGb(FacterLinux_getSwapFree(self).val))

facterInfo(cls, self, hs) ==
  IF cls = "FacterLinux" THEN FacterLinux_facterInfo(self, hs)
  ELSE FacterWindows_facterInfo(self, hs)

-----------------------------------------------------------------------------
(* The hosts of the model.                                                 *)

\* what os.popen("ifconfig").read() can come to
IfconfigOutcomes == {Out(IfconfigLegacy), Out(IfconfigNewer), Out(""), Raise("OSError")}

\* what os.popen("cat /proc/meminfo").read() can come to
MeminfoOutcomes ==
  {Out(MeminfoText), Out(""), Out("MemTotal: unknown\n"), Raise("OSError")}

\* what run_os_command("/usr/sbin/sestatus") can come to; the exit code is not read
SestatusOutcomes ==
  {Out("SELinux status: enabled\n"), Out("SELinux status: disabled\n"), Raise("OSError")}

\* what runPowershell(GET_MEMORY_CMD) can come to
PsMemoryOutcomes ==
  {Out("2048000 4194304\r\n"), Out(""), Out("Get-WMIObject : Access denied\r\n"),
   Raise("Exception")}

\* what runPowershell(GET_PAGE_FILE_INFO) can come to
PsPageFileOutcomes ==
  {Out("4096 1024\r\n"), Out(""), Out("Get-WmiObject : Access denied\r\n"),
   Raise("Exception")}

\* what socket.gethostbyname(socket.gethostname().lower()) can come to
ResolveOutcomes == {PyStr("10.0.0.5"), Raise("gaierror")}

\* how the uptime source can fail
UptimeFaults == {"", "raise", "text"}

\* uuid.getnode() values, each as its six bytes, the least significant first
NodeValues ==
  {<<1, 0, 0, 62, 22, 0>>, <<255, 171, 16, 10, 0, 2>>, <<0, 0, 0, 0, 0, 0>>}

\* the names socket.getfqdn() can yield in SpecBase: every string of at most
\* n characters over a lower-case letter, an upper-case letter and the dot
RECURSIVE Fqdns(_)
Fqdns(n) ==
  IF n = 0 THEN {""}
  ELSE Fqdns(n - 1) \cup {s \o c : s \in Fqdns(n - 1), c \in {"a", "B", "."}}

\* a healthy host on which the class cls is the one bound to Facter
Host(cls, redhat7, uptime) ==
  [user |-> "root",
   system |-> IF cls = "FacterWindows" THEN "Windows" ELSE "Linux",
   fqdn |-> "Node1.Lab.io",
   resolve |-> PyStr("10.0.0.5"),
   node |-> <<1, 0, 0, 62, 22, 0>>,
   processor |-> IF cls = "FacterWindows" THEN "" ELSE "x86_64",
   os_type |-> IF cls = "FacterWindows" THEN "windows" ELSE "centos",
   os_version |-> IF cls = "FacterWindows" THEN "6.3" ELSE "7.1",
   os_family |-> IF cls = "FacterWindows" THEN "winsrv" ELSE "redhat",
   tzname |-> <<"EST", "EDT">>,
   daylight |-> 1,
   cpu_count |-> 4,
   release |-> IF cls = "FacterWindows" THEN "2012ServerR2" ELSE "3.10.0-229.el7",
   is_redhat7 |-> redhat7,
   ifconfig |-> IF cls = "FacterWindows" THEN Raise("OSError")
                ELSE IF redhat7 THEN Out(IfconfigNewer) ELSE Out(IfconfigLegacy),
   meminfo |-> IF cls = "FacterWindows" THEN Raise("OSError") ELSE Out(MeminfoText),
   sestatus |-> IF cls = "FacterWindows" THEN Raise("OSError")
                ELSE Out("SELinux status: enabled\n"),
   uptime |-> uptime,
   uptime_fault |-> "",
   ps_memory |-> IF cls = "FacterWindows" THEN Out("2048000 4194304\r\n")
                 ELSE Raise("Exception"),
   ps_pagefile |-> IF cls = "FacterWindows" THEN Out("4096 1024\r\n")
                   ELSE Raise("Exception")]

\* the hosts that h can become in one change, on which class cls runs: a
\* second passes, or a command or an OS call starts to answer differently
Changes(cls, h) ==
  ({[h EXCEPT !.uptime = @ + 1]}
   \cup {[h EXCEPT !.uptime_fault = f] : f \in UptimeFaults}
   \cup {[h EXCEPT !.resolve = v] : v \in ResolveOutcomes}
   \cup (IF cls = "FacterLinux"
           THEN {[h EXCEPT !.ifconfig = v] : v \in IfconfigOutcomes}
                \cup {[h EXCEPT !.meminfo = v] : v \in MeminfoOutcomes}
                \cup {[h EXCEPT !.sestatus = v] : v \in SestatusOutcomes}
           ELSE {[h EXCEPT !.ps_memory = v] : v \in PsMemoryOutcomes}
                \cup {[h EXCEPT !.ps_pagefile = v] : v \in PsPageFileOutcomes}))
  \ {h}

\* what the n reads of one call can find, one after the other, on a host that
\* is h at the first of them and changes at most k times before the last
RECURSIVE Reads(_, _, _, _)
Reads(cls, h, n, k) ==
  IF n = 1 THEN {<<h>>}
  ELSE {<<h>> \o hs :
          hs \in Reads(cls, h, n - 1, k)
                   \cup (IF k = 0 THEN {}
                         ELSE UNION {Reads(cls, g, n - 1, k - 1) : g \in Changes(cls, h)})}

-----------------------------------------------------------------------------
(* The instance and the calls on it.                                       *)

\* a call whose reads found the hosts hs returns r, the host having changed
\* moves times meanwhile
Ends(name, hs, moves, r) ==
  /\ op' = name
  /\ ret' = r.val
  /\ log' = r.warn
  /\ seen' = <<>>
  /\ host' = hs[Len(hs)]
  /\ events' = events + moves
  /\ UNCHANGED Facter

\* Facter(): the constructor of the class bound to Facter; FacterLinux reads
\* the host three times, FacterWindows not at all
Construct ==
  \E hs \in Reads(Facter, host, IF Facter = "FacterLinux" THEN 3 ELSE 1, MaxEvents - events) :
    /\ Ends("__init__", hs, Cardinality({i \in 1..(Len(hs) - 1) : hs[i + 1] # hs[i]}),
            Result(PyNone, IF Facter = "FacterLinux" THEN FacterLinux_init(hs).warn
                           ELSE FacterBase_init(hs).warn))
    /\ data' = IF Facter = "FacterLinux" THEN FacterLinux_init(hs).val
               ELSE FacterBase_init(hs).val
    /\ built' = hs
    /\ info' = PyNone
    /\ prev' = PyNone

\* a call of method name returns r: nothing of the instance changes
Returns(name, r) ==
  /\ op' = name
  /\ ret' = r.val
  /\ log' = r.warn
  /\ seen' = <<>>
  /\ prev' = PyNone
  /\ UNCHANGED <<Facter, host, data, built, events, info>>

GetIpAddress == Returns("getIpAddress", getIpAddress(Facter, data, host))

GetNetmask == Returns("getNetmask", getNetmask(Facter, data, host))

GetInterfaces == Returns("getInterfaces", getInterfaces(Facter, data, host))

\* getUptimeSeconds() that reads /proc/uptime again instead of the capture
GetUptimeSeconds_reread ==
  /\ data' = IF Facter = "FacterLinux"
               THEN [data EXCEPT !.DATA_UPTIME_OUTPUT = setDataUpTimeOutput(host).val[2]]
               ELSE data
  /\ op' = "getUptimeSeconds"
  /\ ret' = getUptimeSeconds(Facter, data', host).val
  /\ log' = getUptimeSeconds(Facter, data', host).warn
  /\ seen' = <<>>
  /\ prev' = PyNone
  /\ UNCHANGED <<Facter, host, built, events, info>>

GetUptimeSeconds == Returns("getUptimeSeconds", getUptimeSeconds(Facter, data, host))

GetUptimeHours ==
  Returns("getUptimeHours", getUptimeHours(getUptimeSeconds(Facter, data, host)))

GetUptimeDays ==
  Returns("getUptimeDays", getUptimeDays(getUptimeSeconds(Facter, data, host)))

GetMemoryFree == Returns("getMemoryFree", getMemoryFree(Facter, data, host))

GetMemoryTotal == Returns("getMemoryTotal", getMemoryTotal(Facter, data, host))

GetMemorySize == Returns("getMemorySize", getMemorySize(Facter, data, host))

GetSwapFree == Returns("getSwapFree", getSwapFree(Facter, data, host))

GetSwapSize == Returns("getSwapSize", getSwapSize(Facter, data, host))

IsSeLinux ==
  /\ Facter = "FacterLinux"
  /\ Returns("isSeLinux", isSeLinux(host))

\* facterInfo() returns r: info keeps the mapping of a call during which the
\* host stood still
Answers(hs, moves, r) ==
  /\ Ends("facterInfo", hs, moves, r)
  /\ info' = IF moves = 0 THEN r.val ELSE PyNone
  /\ prev' = info
  /\ UNCHANGED built

\* facterInfo() that captures the three outputs anew once it has answered
FacterInfo_recapture ==
  \E hs \in Reads(Facter, host, IF Facter = "FacterLinux" THEN 2 ELSE 9, MaxEvents - events) :
    /\ Answers(hs, Cardinality({i \in 1..(Len(hs) - 1) : hs[i + 1] # hs[i]}),
               facterInfo(Facter, data, hs))
    /\ data' = IF Facter = "FacterLinux"
                 THEN FacterLinux_init(<<host', host', host'>>).val ELSE data

\* facterInfo()
FacterInfo ==
  \E hs \in Reads(Facter, host, IF Facter = "FacterLinux" THEN 2 ELSE 9, MaxEvents - events) :
    /\ Answers(hs, Cardinality({i \in 1..(Len(hs) - 1) : hs[i + 1] # hs[i]}),
               facterInfo(Facter, data, hs))
    /\ UNCHANGED data

-----------------------------------------------------------------------------
(* The host changes under the running agent.                               *)

\* the host state becomes h: what the last call returned is out of date
Becomes(h) ==
  /\ events < MaxEvents
  /\ host' = h
  /\ events' = events + 1
  /\ op' = ""
  /\ ret' = PyNone
  /\ log' = <<>>
  /\ seen' = <<>>
  /\ info' = PyNone
  /\ prev' = PyNone
  /\ UNCHANGED <<Facter, data, built>>

\* the host changes while no call is under way
HostChange == \E h \in Changes(Facter, host) : Becomes(h)

-----------------------------------------------------------------------------
(* Spec: an instance of the class bound to Facter, on a host that changes. *)

\* the module is imported (lines 452-455) and main() has constructed Facter()
\* on a healthy host that stood still meanwhile; the uptime is a second before
\* a full day, which is a second before a full hour too
Init ==
  /\ Facter \in {"FacterLinux", "FacterWindows"}
  /\ \E redhat7 \in BOOLEAN :
       /\ Facter = "FacterWindows" => ~redhat7
       /\ host = Host(Facter, redhat7, 60 * 60 * 24 - 1)
  /\ data = IF Facter = "FacterLinux" THEN FacterLinux_init(<<host, host, host>>).val
            ELSE FacterBase_init(<<host>>).val
  /\ built = IF Facter = "FacterLinux" THEN <<host, host, host>> ELSE <<host>>
  /\ op = "__init__"
  /\ ret = PyNone
  /\ log = <<>>
  /\ seen = <<>>
  /\ events = 0
  /\ info = PyNone
  /\ prev = PyNone

Next ==
  \/ Construct
  \/ GetIpAddress
  \/ GetNetmask
  \/ GetInterfaces
  \/ GetUptimeSeconds
  \/ GetUptimeHours
  \/ GetUptimeDays
  \/ GetMemoryFree
  \/ GetMemoryTotal
  \/ GetMemorySize
  \/ GetSwapFree
  \/ GetSwapSize
  \/ IsSeLinux
  \/ FacterInfo
  \/ HostChange

Spec == Init /\ [][Next]_vars

-----------------------------------------------------------------------------
(* SpecBase: the accessors of FacterBase that read the host directly, on   *)
(* every host name, timezone flag and node of the bounds.                  *)

GetFqdn == Returns("getFqdn", getFqdn(host))

GetHostname == Returns("getHostname", getHostname(host))

GetDomain == Returns("getDomain", getDomain(host))

GetTimeZone == Returns("getTimeZone", getTimeZone(host))

\* getMacAddress(): the second uuid.getnode() need not repeat the first
GetMacAddress ==
  \E second \in NodeValues :
    /\ op' = "getMacAddress"
    /\ ret' = getMacAddress(host.node, second).val
    /\ log' = <<>>
    /\ seen' = <<host.node, second>>
    /\ UNCHANGED <<Facter, host, data, built, events, info, prev>>

InitBase ==
  /\ Facter = "FacterLinux"
  /\ \E name \in Fqdns(MaxFqdnLen) : \E flag \in {0, 1} : \E node \in NodeValues :
       host = [Host(Facter, FALSE, 0) EXCEPT !.fqdn = name, !.daylight = flag, !.node = node]
  /\ data = FacterLinux_init(<<host, host, host>>).val
  /\ built = <<host, host, host>>
  /\ op = "__init__"
  /\ ret = PyNone
  /\ log = <<>>
  /\ seen = <<>>
  /\ events = 0
  /\ info = PyNone
  /\ prev = PyNone

NextBase ==
  \/ GetFqdn
  \/ GetHostname
  \/ GetDomain
  \/ GetTimeZone
  \/ GetMacAddress

SpecBase == InitBase /\ [][NextBase]_vars

-----------------------------------------------------------------------------
(* Properties.                                                             *)

\* the keys of the mapping of facterInfo() of class cls
Vocabulary(cls) ==
  {"id", "kernel", "domain", "fqdn", "hostname", "macaddress", "architecture",
   "operatingsystem", "operatingsystemrelease", "physicalprocessorcount",
   "processorcount", "timezone", "hardwareisa", "hardwaremodel", "kernelrelease",
   "kernelversion", "osfamily", "kernelmajversion", "ipaddress", "netmask",
   "interfaces", "uptime_seconds", "uptime_hours", "uptime_days", "memorysize",
   "memoryfree", "memorytotal", "swapsize", "swapfree"}
  \cup (IF cls = "FacterLinux" THEN {"selinux"} ELSE {})

\* C1: whatever the commands of the host answer (the resolver of the host name
\* left aside), facterInfo() returns a mapping that holds every key of the
\* vocabulary of the variant, each with a value that is not None.
C1_FacterInfoComplete ==
  (op = "facterInfo" /\ ret # Raise("gaierror")) =>
    /\ ret[1] = "dict"
    /\ DOMAIN ret[2] = Vocabulary(Facter)
    /\ \A k \in DOMAIN ret[2] : ret[2][k] # PyNone

\* C2: a facterInfo() that follows a facterInfo() of the same instance, with the
\* host unchanged from the start of the first to the end of the second,
\* returns what the first returned.
C2_Idempotent ==
  (op = "facterInfo" /\ prev # PyNone /\ info # PyNone) => ret = prev

C2_Witness ==
  /\ op = "facterInfo"
  /\ prev # PyNone
  /\ info # PyNone
  /\ ret[1] = "dict"
  /\ ret = prev
  /\ host # built[Len(built)]

\* the accessors of FacterWindows and the fact each is named after
WindowsAccessors ==
  {"getIpAddress", "getNetmask", "getInterfaces", "getUptimeSeconds", "getMemoryFree",
   "getMemoryTotal", "getMemorySize", "getSwapFree", "getSwapSize"}

FactOf(accessor) == From(accessor, 4)

\* the token that an accessor of FacterWindows takes from an output is a number
Numeric(out, last) ==
  ~IsExc(out) /\ AllDigits(DropNewlines(IF last THEN SplitLast(out[2], " ")
                                         ELSE SplitHead(out[2], " ")))

\* the accessor of FacterWindows could not get its fact from host h
WindowsFailure(accessor, h) ==
  CASE accessor = "getIpAddress" -> IsExc(h.resolve)
    [] accessor = "getUptimeSeconds" -> h.uptime_fault # ""
    [] accessor = "getMemoryFree" -> ~Numeric(h.ps_memory, FALSE)
    [] accessor \in {"getMemoryTotal", "getMemorySize"} -> ~Numeric(h.ps_memory, TRUE)
    [] accessor = "getSwapFree" -> ~Numeric(h.ps_pagefile, TRUE)
    [] accessor = "getSwapSize" -> ~Numeric(h.ps_pagefile, FALSE)
    [] OTHER -> FALSE

\* C3: an accessor of FacterWindows that fails logs one warning that names its
\* fact, returns 0 or "OS NOT SUPPORTED", and raises nothing.
C3_WindowsFailuresAlike ==
  (Facter = "FacterWindows" /\ op \in WindowsAccessors /\ WindowsFailure(op, host)) =>
    /\ ret \in {PyInt(0), PyStr("OS NOT SUPPORTED")}
    /\ log = <<"Can not get " \o FactOf(op)>>

\* C4: with an empty capture of ifconfig, under the pattern of either format,
\* getInterfaces() and getNetmask() return "OS NOT SUPPORTED" and
\* getIpAddress() returns what the resolver of the host name answers.
C4_EmptyIfconfig ==
  (Facter = "FacterLinux" /\ data.DATA_IFCONFIG_OUTPUT = "") =>
    /\ op = "getInterfaces" => ret = PyStr("OS NOT SUPPORTED")
    /\ op = "getNetmask" => ret = PyStr("OS NOT SUPPORTED")
    /\ op = "getIpAddress" => ret = host.resolve /\ log # <<>>

C4_Witness ==
  /\ Facter = "FacterLinux"
  /\ host.is_redhat7
  /\ data.DATA_IFCONFIG_OUTPUT = ""
  /\ op = "getIpAddress"
  /\ ret = PyStr("10.0.0.5")

\* C5: getUptimeHours() is the floor of the seconds that getUptimeSeconds()
\* returns over 3600, getUptimeDays() the floor over 86400, the seconds
\* being 0 or more.
C5_HoursAndDays ==
  LET s == getUptimeSeconds(Facter, data, host).val[2]
  IN s >= 0 =>
       /\ op = "getUptimeHours" => ret = PyInt(CHOOSE q \in 0..s : 3600 * q <= s /\ s < 3600 * (q + 1))
       /\ op = "getUptimeDays" => ret = PyInt(CHOOSE q \in 0..s : 86400 * q <= s /\ s < 86400 * (q + 1))

C5_Witness ==
  /\ op = "getUptimeHours"
  /\ getUptimeSeconds(Facter, data, host).val = PyInt(86400)
  /\ ret = PyInt(24)

\* how many times t occurs in s, counting every position
Occurrences(s, t) == Cardinality({p \in 1..Len(s) : StartsAt(s, p, t)})

\* C6 as stated: when the hostname occurs once in the FQDN, the domain, a dot
\* and the hostname, in this order, make up the FQDN.
C6_DomainDotHostname ==
  LET fqdn == getFqdn(host).val[2]
      hostname == getHostname(host).val[2]
  IN (op = "getDomain" /\ hostname # "" /\ Occurrences(fqdn, hostname) = 1) =>
       ret[2] \o "." \o hostname = fqdn

\* C6, amended: when the FQDN holds a dot, the hostname, a dot and the domain,
\* in this order, make up the FQDN, whether the hostname occurs again in it or
\* not: the domain is the FQDN less the hostname in front and one dot.
C6_HostnameDotDomain ==
  LET fqdn == getFqdn(host).val[2]
      hostname == getHostname(host).val[2]
  IN (op = "getDomain" /\ Occurrences(fqdn, ".") > 0) =>
       /\ hostname \o "." \o ret[2] = fqdn
       /\ Len(ret[2]) = Len(fqdn) - Len(hostname) - 1

C6_Witness ==
  /\ op = "getDomain"
  /\ host.fqdn = "B.a"
  /\ ret = PyStr("a")

\* C7: the three captures of a FacterLinux instance are those of its
\* construction, whatever was called since and however the host has changed,
\* and the accessors that read them answer from them.
C7_CapturedOnce ==
  LET made == FacterLinux_init(built).val
  IN Facter = "FacterLinux" =>
       /\ data = made
       /\ op = "getUptimeSeconds" => ret = FacterLinux_getUptimeSeconds(made).val
       /\ op = "getMemoryFree" => ret = FacterLinux_getMemoryFree(made).val
       /\ op = "getMemoryTotal" => ret = FacterLinux_getMemoryTotal(made).val
       /\ op = "getMemorySize" => ret = FacterLinux_getMemorySize(made).val
       /\ op = "getSwapFree" => ret = FacterLinux_getSwapFree(made).val
       /\ op = "getSwapSize" => ret = FacterLinux_getSwapSize(made).val
       /\ op = "getNetmask" => ret = FacterLinux_getNetmask(made, built[1]).val
       /\ op = "getInterfaces" => ret = FacterLinux_getInterfaces(made, built[1]).val

C7_Witness ==
  /\ Facter = "FacterLinux"
  /\ op = "getUptimeSeconds"
  /\ host.uptime # built[2].uptime
  /\ ret = PyInt(built[2].uptime)

\* C8: getTimeZone() returns the standard name, tzname[0], when the daylight
\* flag is 0, and the daylight name, tzname[1], when it is not.
C8_TimeZoneByFlag ==
  op = "getTimeZone" =>
    ret = PyStr(IF host.daylight = 0 THEN host.tzname[1] ELSE host.tzname[2])

\* the byte that two upper-case hexadecimal digits stand for, -1 if they are
\* not such digits
HexByte(pair) ==
  LET value == Positions(HexDigits)
  IN IF Len(pair) = 2 /\ Char(pair, 1) \in DOMAIN value /\ Char(pair, 2) \in DOMAIN value
       THEN 16 * value[Char(pair, 1)] + value[Char(pair, 2)]
       ELSE 0 - 1

\* C9: when the second read of the node repeats the first, getMacAddress()
\* returns six groups of two upper-case hexadecimal digits with colons
\* between, the bytes of the node from the most significant down; when it
\* does not, "UNKNOWN".
C9_MacAddress ==
  op = "getMacAddress" =>
    IF seen[1] = seen[2]
      THEN /\ Len(ret[2]) = 17
           /\ \A k \in 1..5 : Char(ret[2], 3 * k) = ":"
           /\ \A k \in 1..6 : HexByte(SubSeq(ret[2], 3 * k - 2, 3 * k - 1)) = seen[2][7 - k]
      ELSE ret = PyStr("UNKNOWN")

C9_Witness ==
  /\ op = "getMacAddress"
  /\ seen = <<<<255, 171, 16, 10, 0, 2>>, <<255, 171, 16, 10, 0, 2>>>>
  /\ ret = PyStr("02:00:0A:10:AB:FF")

\* C10: the uptime entries of a mapping of facterInfo() agree: the hours are
\* the seconds over 3600, the days the seconds over 86400.
C10_UptimeEntriesAgree ==
  (op = "facterInfo" /\ ret[1] = "dict") =>
    LET s == ParseInt(ret[2].uptime_seconds[2])[2]
    IN /\ ret[2].uptime_hours = PyStr(ToStr(s \div 3600))
       /\ ret[2].uptime_days = PyStr(ToStr(s \div 86400))

====
